---- MODULE Spec2Model ----
(***************************************************************************)
(* The SuperTrend family of github.com/phrynus/ta: CalculateATR,           *)
(* CalculateSuperTrendPivotHl2 and CalculateSuperTrendPivot.               *)
(*                                                                         *)
(* Numbers.  The Go code computes in float64.  Here a float is the exact   *)
(* rational it stands for, kept as an integer count of 1/Unit: prices are  *)
(* small integers, every division of the code is by 2, by 3 or by the ATR  *)
(* period, and Unit holds enough factors of each for all the divisions of  *)
(* one run to be exact.  Rounding, NaN and Inf inputs are outside the      *)
(* model; the NaN that CalculateATR makes for period = 0 is the value NaN. *)
(*                                                                         *)
(* Slices are functions on 0..len-1, with the indices of the code.         *)
(* Every per-call variable is indexed by a run: run 1 is the call under     *)
(* study, run 2 a second call of the same function, made after run 1 has   *)
(* returned, on a series that differs from the first in one bar or lacks   *)
(* its last bar (used to compare two calls).                               *)
(***************************************************************************)
EXTENDS Integers, Sequences, FiniteSets, TLC

\* Longest series drawn as input.
MaxLen == 3
\* Prices are 0..MaxPrice.
MaxPrice == 2

Runs == {1, 2}
Prices == 0 .. MaxPrice
\* period / atrPeriod arguments: invalid (-1, 0) and valid ones.
Periods == -1 .. 2
\* multiplier / factor arguments.
Multipliers == {1, 2}

\* A candle: Low <= Close <= High, flat or one price unit tall (Open, Volume
\* and StartTime are not read by the functions modelled).
Bars == {b \in [High : Prices, Low : Prices, Close : Prices] :
            /\ b.Low <= b.Close /\ b.Close <= b.High
            /\ b.High - b.Low <= 1}

KlineDatasOfLen(n) == [0 .. n - 1 -> Bars]
KlineDatas == UNION {KlineDatasOfLen(n) : n \in 0 .. MaxLen}

len(s) == Cardinality(DOMAIN s)

RECURSIVE Pow(_, _)
Pow(b, e) == IF e = 0 THEN 1 ELSE b * Pow(b, e - 1)

\* The count of 1/Unit(p) that stands for a float, when the ATR period is p.
UnitTable == [p \in Periods \cup {3, 10} |->
                 2 * Pow(3, MaxLen) * Pow(IF p > 0 THEN p ELSE 1, MaxLen)]
Unit(p) == UnitTable[p]
\* float64(x) of an integer x.
F(p, x) == x * Unit(p)

NaN == "NaN"

Abs(x) == IF x < 0 THEN -x ELSE x
Max(a, b) == IF a > b THEN a ELSE b
Min(a, b) == IF a < b THEN a ELSE b

RECURSIVE SumTo(_, _, _)
\* f[lo] + ... + f[hi]
SumTo(f, lo, hi) == IF lo > hi THEN 0 ELSE f[hi] + SumTo(f, lo, hi - 1)

preallocateOneMore(n) == [j \in 0 .. n |-> 0]

\* make([]float64, n), make([]int, n)
preallocate(n) == [j \in 0 .. n - 1 |-> 0]

(***************************************************************************)
(* CalculateATR                                                            *)
(***************************************************************************)
TrueRangeLookahead(k, p, j) ==
    LET n == IF j + 1 < len(k) THEN j + 1 ELSE j IN
    Max(F(p, k[n].High) - F(p, k[n].Low),
        Max(Abs(F(p, k[n].High) - F(p, k[j - 1].Close)),
            Abs(F(p, k[n].Low) - F(p, k[j - 1].Close))))

TrueRangeNoGap(k, p, j) == F(p, k[j].High) - F(p, k[j].Low)

\* trueRange[j] for j >= 1.
TrueRangeAt(k, p, j) ==
    Max(F(p, k[j].High) - F(p, k[j].Low),
        Max(Abs(F(p, k[j].High) - F(p, k[j - 1].Close)),
            Abs(F(p, k[j].Low) - F(p, k[j - 1].Close))))

TrueRangeOf(k, p) ==
    [j \in 0 .. len(k) - 1 |-> IF j >= 1 THEN TrueRangeAt(k, p, j) ELSE 0]

RECURSIVE WilderAt(_, _, _)
\* atr[j] for j >= p >= 1, given trueRange tr.
WilderAt(tr, p, j) ==
    IF j = p THEN SumTo(tr, 1, p) \div p
    ELSE (WilderAt(tr, p, j - 1) * (p - 1) + tr[j]) \div p

InsufficientOffByOne(n, p) == n < p - 1

\* if len(klineData) < period: the length check of CalculateATR and of the
\* three SuperTrend functions.
Insufficient(n, p) == n < p

\* The outcome of CalculateATR(k, p): an error, a run-time panic (index out
\* of range), or the TaATR value.
CalculateATR(k, p) ==
    LET n == len(k)
        tr == TrueRangeOf(k, p)
    IN  IF Insufficient(n, p) THEN [status |-> "error"]
        ELSE IF p >= 1 /\ p >= n THEN [status |-> "panic"]   \* trueRange[period]
        ELSE IF p < 0 \/ p >= n THEN [status |-> "panic"]    \* atr[period]
        ELSE IF p = 0
             THEN [status |-> "ok", Period |-> p, TrueRange |-> tr,
                   Values |-> [j \in 0 .. n - 1 |-> NaN]]     \* 0/0 and on
        ELSE [status |-> "ok", Period |-> p, TrueRange |-> tr,
              Values |-> [j \in 0 .. n - 1 |->
                            IF j < p THEN 0 ELSE WilderAt(tr, p, j)]]

(***************************************************************************)
(* State                                                                   *)
(***************************************************************************)
VARIABLES
    klineData,   \* klineData[r]: the series run r is called with
    period,      \* period of CalculateSuperTrendPivotHl2
    multiplier,  \* multiplier of CalculateSuperTrendPivotHl2
    pc,          \* pc[r]: where run r is
    i,           \* i[r]: the loop index
    atr,         \* atr[r]: what CalculateATR returned
    values,      \* values[r], direction[r], upperBand[r], lowerBand[r]:
    direction,   \*   the four slices of CalculateSuperTrendPivotHl2
    upperBand,
    lowerBand,
    pivotPeriod, \* pivotPeriod, factor, atrPeriod of CalculateSuperTrendPivot
    factor,
    atrPeriod,
    trendUp,     \* trendUp[r], trendDown[r], trend[r]: its three slices
    trendDown,
    trend,
    center,      \* center[r], centerCount[r]: its running center
    centerCount,
    pivotHighPoint, \* pivotHighPoint[r], pivotLowPoint[r]: what the last
    pivotLowPoint,  \*   FindPivotHighPoint and FindPivotLowPoint returned
    rows,           \* NewKlineDatas: length, the number of rows to convert
    workers,        \* runtime.NumCPU()
    invalidRows,    \* the rows whose conversion fails
    klineDataList,  \* klineDataList[j]: how often slot j was written
    worker,         \* worker[w]: state and loop index of goroutine w
    wg,             \* the WaitGroup counter
    errChan,        \* the buffered error channel and whether it is closed
    spawned,        \* the index of the spawning loop
    mainPc          \* where NewKlineDatas itself is

vars == <<klineData, period, multiplier, pc, i, atr, values, direction,
          upperBand, lowerBand, pivotPeriod, factor, atrPeriod, trendUp,
          trendDown, trend, center, centerCount, pivotHighPoint,
          pivotLowPoint, rows, workers, invalidRows, klineDataList, worker,
          wg, errChan, spawned, mainPc>>

parsevars == <<rows, workers, invalidRows, klineDataList, worker, wg, errChan,
               spawned, mainPc>>

\* NewKlineDatas is not called.
NotParsing ==
    /\ rows = 0 /\ workers = 0 /\ invalidRows = {}
    /\ klineDataList = <<>> /\ worker = <<>>
    /\ wg = 0 /\ errChan = [buf |-> <<>>, closed |-> FALSE]
    /\ spawned = 0 /\ mainPc = "idle"

params == <<period, multiplier, pivotPeriod, factor, atrPeriod>>
hl2vars == <<values, direction, upperBand, lowerBand>>
pivotvars == <<trendUp, trendDown, trend, center, centerCount, pivotHighPoint,
               pivotLowPoint>>

NoAtr == [status |-> "none"]
Blank == [r \in Runs |-> <<>>]

(***************************************************************************)
(* CalculateSuperTrendPivotHl2                                             *)
(***************************************************************************)
\* hl2 := (klineData[i].High + klineData[i].Low) / 2
Hl2(k, p, j) == (F(p, k[j].High) + F(p, k[j].Low)) \div 2

\* if i < period
InWarmup(j, p) == j < p

WarmupValueZero(hl2) == 0

\* values[i] = hl2 of the warm-up branch
WarmupValue(hl2) == hl2

\* hl2 + multiplier*atr.Values[i]
BasicUpperBand(hl2, m, a) == hl2 + m * a
BasicLowerBandPlus(hl2, m, a) == hl2 + m * a

\* hl2 - multiplier*atr.Values[i]
BasicLowerBand(hl2, m, a) == hl2 - m * a

LowerBandNoReset(basicLowerBand, prevLower, prevClose) ==
    IF basicLowerBand > prevLower THEN basicLowerBand ELSE prevLower

LowerBandNoRatchet(basicLowerBand, prevLower, prevClose) == basicLowerBand

LowerBandRatchetDown(basicLowerBand, prevLower, prevClose) ==
    IF basicLowerBand < prevLower \/ prevClose < prevLower
    THEN basicLowerBand ELSE prevLower

\* lowerBand[i], from the raw candidate, lowerBand[i-1] and close[i-1].
LowerBandNext(basicLowerBand, prevLower, prevClose) ==
    IF basicLowerBand > prevLower \/ prevClose < prevLower
    THEN basicLowerBand ELSE prevLower

UpperBandNoRatchet(basicUpperBand, prevUpper, prevClose) == basicUpperBand

UpperBandNoReset(basicUpperBand, prevUpper, prevClose) ==
    IF basicUpperBand < prevUpper THEN basicUpperBand ELSE prevUpper

\* upperBand[i], from the raw candidate, upperBand[i-1] and close[i-1].
UpperBandNext(basicUpperBand, prevUpper, prevClose) ==
    IF basicUpperBand < prevUpper \/ prevClose > prevUpper
    THEN basicUpperBand ELSE prevUpper

DirectionFlipOnTouchLower(prevDir, close, upper, lower) ==
    IF prevDir <= 0
    THEN (IF close > upper THEN 1 ELSE -1)
    ELSE (IF close <= lower THEN -1 ELSE 1)

DirectionFlipOnTouchUpper(prevDir, close, upper, lower) ==
    IF prevDir <= 0
    THEN (IF close >= upper THEN 1 ELSE -1)
    ELSE (IF close < lower THEN -1 ELSE 1)

DirectionStaysUndetermined(prevDir, close, upper, lower) ==
    IF prevDir <= 0
    THEN (IF close > upper THEN 1 ELSE prevDir)
    ELSE (IF close < lower THEN -1 ELSE 1)

DirectionNeverDown(prevDir, close, upper, lower) ==
    IF prevDir <= 0
    THEN (IF close > upper THEN 1 ELSE -1)
    ELSE 1

\* direction[i], from direction[i-1], close[i] and the bands of bar i.
DirectionNext(prevDir, close, upper, lower) ==
    IF prevDir <= 0
    THEN (IF close > upper THEN 1 ELSE -1)
    ELSE (IF close < lower THEN -1 ELSE 1)

ValueOfSwapped(dir, upper, lower) == IF dir = 1 THEN upper ELSE lower

\* values[i]
ValueOf(dir, upper, lower) == IF dir = 1 THEN lower ELSE upper

\* Lines 17-25: the length check and a failed ATR call.
Hl2Fail(r) ==
    /\ pc[r] = "hl2_entry"
    /\ \/ Insufficient(len(klineData[r]), period)
       \/ CalculateATR(klineData[r], period).status = "error"
    /\ pc' = [pc EXCEPT ![r] = "error"]
    /\ UNCHANGED <<parsevars, klineData, params, i, atr, hl2vars, pivotvars>>

\* Line 22: CalculateATR indexes out of range.
Hl2AtrPanic(r) ==
    /\ pc[r] = "hl2_entry"
    /\ ~(Insufficient(len(klineData[r]), period))
    /\ CalculateATR(klineData[r], period).status = "panic"
    /\ pc' = [pc EXCEPT ![r] = "panic"]
    /\ UNCHANGED <<parsevars, klineData, params, i, atr, hl2vars, pivotvars>>

\* Lines 17-30: the ATR call succeeds, the slices are allocated, i := 0.
Hl2Entry(r) ==
    /\ pc[r] = "hl2_entry"
    /\ ~(Insufficient(len(klineData[r]), period))
    /\ LET a == CalculateATR(klineData[r], period)
           length == len(klineData[r])
       IN  /\ a.status = "ok"
           /\ atr' = [atr EXCEPT ![r] = a]
           /\ values' = [values EXCEPT ![r] = preallocate(length)]
           /\ direction' = [direction EXCEPT ![r] = preallocate(length)]
           /\ upperBand' = [upperBand EXCEPT ![r] = preallocate(length)]
           /\ lowerBand' = [lowerBand EXCEPT ![r] = preallocate(length)]
    /\ i' = [i EXCEPT ![r] = 0]
    /\ pc' = [pc EXCEPT ![r] = "hl2_loop"]
    /\ UNCHANGED <<parsevars, klineData, params, pivotvars>>

\* Lines 30-41: one iteration with i < period.
Hl2Warmup(r) ==
    /\ pc[r] = "hl2_loop"
    /\ i[r] < len(klineData[r])
    /\ InWarmup(i[r], period)
    /\ LET j == i[r]
           hl2 == Hl2(klineData[r], period, j)
           a == atr[r].Values[j]
       IN  /\ upperBand' = [upperBand EXCEPT ![r][j] = BasicUpperBand(hl2, multiplier, a)]
           /\ lowerBand' = [lowerBand EXCEPT ![r][j] = BasicLowerBand(hl2, multiplier, a)]
           /\ direction' = [direction EXCEPT ![r][j] = 0]
           /\ values' = [values EXCEPT ![r][j] = WarmupValue(hl2)]
    /\ i' = [i EXCEPT ![r] = i[r] + 1]
    /\ UNCHANGED <<parsevars, klineData, params, pc, atr, pivotvars>>

\* Lines 30-33, 43-77: one iteration with i >= period.
Hl2Body(r) ==
    /\ pc[r] = "hl2_loop"
    /\ i[r] < len(klineData[r])
    /\ ~InWarmup(i[r], period)
    /\ i[r] >= 1
    /\ LET j == i[r]
           k == klineData[r]
           hl2 == Hl2(k, period, j)
           basicUpperBand == BasicUpperBand(hl2, multiplier, atr[r].Values[j])
           basicLowerBand == BasicLowerBand(hl2, multiplier, atr[r].Values[j])
           lower == LowerBandNext(basicLowerBand, lowerBand[r][j - 1],
                                  F(period, k[j - 1].Close))
           upper == UpperBandNext(basicUpperBand, upperBand[r][j - 1],
                                  F(period, k[j - 1].Close))
           dir == DirectionNext(direction[r][j - 1], F(period, k[j].Close),
                                upper, lower)
       IN  /\ lowerBand' = [lowerBand EXCEPT ![r][j] = lower]
           /\ upperBand' = [upperBand EXCEPT ![r][j] = upper]
           /\ direction' = [direction EXCEPT ![r][j] = dir]
           /\ values' = [values EXCEPT ![r][j] = ValueOf(dir, upper, lower)]
    /\ i' = [i EXCEPT ![r] = i[r] + 1]
    /\ UNCHANGED <<parsevars, klineData, params, pc, atr, pivotvars>>

\* Line 46 with i = 0 (period <= 0): lowerBand[i-1] is out of range.
Hl2IndexPanic(r) ==
    /\ pc[r] = "hl2_loop"
    /\ i[r] < len(klineData[r])
    /\ ~InWarmup(i[r], period)
    /\ i[r] < 1
    /\ pc' = [pc EXCEPT ![r] = "panic"]
    /\ UNCHANGED <<parsevars, klineData, params, i, atr, hl2vars, pivotvars>>

\* Lines 30, 79-86: the loop ends and the result is returned.
Hl2Return(r) ==
    /\ pc[r] = "hl2_loop"
    /\ i[r] = len(klineData[r])
    /\ pc' = [pc EXCEPT ![r] = "done"]
    /\ UNCHANGED <<parsevars, klineData, params, i, atr, hl2vars, pivotvars>>

Hl2Step(r) ==
    \/ Hl2Fail(r)
    \/ Hl2AtrPanic(r)
    \/ Hl2Entry(r)
    \/ Hl2Warmup(r)
    \/ Hl2Body(r)
    \/ Hl2IndexPanic(r)
    \/ Hl2Return(r)

\* One call of CalculateSuperTrendPivotHl2.
Init ==
    /\ \E k \in KlineDatas : klineData = [r \in Runs |-> IF r = 1 THEN k ELSE <<>>]
    /\ period \in Periods
    /\ multiplier \in Multipliers
    /\ pc = [r \in Runs |-> IF r = 1 THEN "hl2_entry" ELSE "idle"]
    /\ i = [r \in Runs |-> 0]
    /\ atr = [r \in Runs |-> NoAtr]
    /\ values = Blank /\ direction = Blank
    /\ upperBand = Blank /\ lowerBand = Blank
    /\ pivotPeriod = 0 /\ factor = 0 /\ atrPeriod = 0
    /\ trendUp = Blank /\ trendDown = Blank /\ trend = Blank
    /\ center = [r \in Runs |-> 0]
    /\ centerCount = [r \in Runs |-> 0]
    /\ pivotHighPoint = Blank /\ pivotLowPoint = Blank
    /\ NotParsing

Next == \E r \in Runs : Hl2Step(r)

Spec == Init /\ [][Next]_vars

(***************************************************************************)
(* A second call, on a series one change away from the first.  Any two     *)
(* series that agree on bars 0..n are joined by a chain of such changes    *)
(* made after bar n, so what holds of every such pair holds of every two.  *)
(***************************************************************************)
Neighbours(b) ==
    {c \in Bars : Abs(c.High - b.High) + Abs(c.Low - b.Low)
                    + Abs(c.Close - b.Close) = 1}

DropLast(k) == [j \in 0 .. len(k) - 2 |-> k[j]]

Variants(k) ==
    UNION {{[k EXCEPT ![j] = c] : c \in Neighbours(k[j])} : j \in DOMAIN k}
      \cup (IF len(k) >= 1 THEN {DropLast(k)} ELSE {})

\* The caller calls CalculateSuperTrendPivotHl2 again, same period and
\* multiplier, after the first call returned a result.
Hl2CallAgain ==
    /\ pc[1] = "done" /\ pc[2] = "idle"
    /\ \E k \in Variants(klineData[1]) :
          klineData' = [klineData EXCEPT ![2] = k]
    /\ pc' = [pc EXCEPT ![2] = "hl2_entry"]
    /\ UNCHANGED <<parsevars, params, i, atr, hl2vars, pivotvars>>

NextPair == Next \/ Hl2CallAgain

SpecPair == Init /\ [][NextPair]_vars

(***************************************************************************)
(* CalculateSuperTrendPivot                                                *)
(***************************************************************************)
\* pivotPeriod arguments: invalid (-1) and valid ones.
PivotPeriods == -1 .. 1
\* atrPeriod arguments of the calls of CalculateSuperTrendPivot.
AtrPeriods == 1 .. 2

NotANumber == [nan |-> TRUE, v |-> 0]
Number(x) == [nan |-> FALSE, v |-> x]

FindPivotHighPointNoTies(k, p, index, pp) ==
    IF index < pp \/ index + pp >= len(k) THEN NotANumber
    ELSE IF \E j \in (index - pp .. index + pp) \ {index} :
                k[j].High >= k[index].High
         THEN NotANumber
    ELSE Number(F(p, k[index].High))

\* FindPivotHighPoint(klineData, index, period) for index >= 0: NaN or the
\* high of the bar.
FindPivotHighPoint(k, p, index, pp) ==
    IF index < pp \/ index + pp >= len(k) THEN NotANumber
    ELSE IF \E j \in index - pp .. index + pp : k[j].High > k[index].High
         THEN NotANumber
    ELSE Number(F(p, k[index].High))

\* FindPivotLowPoint(klineData, index, period) for index >= 0.
FindPivotLowPoint(k, p, index, pp) ==
    IF index < pp \/ index + pp >= len(k) THEN NotANumber
    ELSE IF \E j \in index - pp .. index + pp : k[j].Low < k[index].Low
         THEN NotANumber
    ELSE Number(F(p, k[index].Low))

\* Lines 65-86: center and centerCount after the pivots of bar i are known.
CenterNext(c, count, pivotHigh, pivotLow, hl2) ==
    LET found == ~pivotHigh.nan \/ ~pivotLow.nan
        newCenter == IF ~pivotHigh.nan /\ ~pivotLow.nan
                     THEN (pivotHigh.v + pivotLow.v) \div 2
                     ELSE IF ~pivotHigh.nan THEN pivotHigh.v ELSE pivotLow.v
        c1 == IF ~found THEN c
              ELSE IF count = 0 THEN newCenter
              ELSE (c * 2 + newCenter) \div 3
        count1 == IF found THEN count + 1 ELSE count
    IN  [center |-> IF count1 = 0 THEN hl2 ELSE c1, centerCount |-> count1]

\* Lines 94-98: trendUp[i].
TrendUpNext(lowerB, prevTrendUp, prevClose) ==
    IF prevClose > prevTrendUp THEN Max(lowerB, prevTrendUp) ELSE lowerB

\* Lines 100-104: trendDown[i].
TrendDownNext(upperB, prevTrendDown, prevClose) ==
    IF prevClose < prevTrendDown THEN Min(upperB, prevTrendDown) ELSE upperB

TrendNextBackToZero(prevTrend, close, prevTrendDown, prevTrendUp) ==
    IF close > prevTrendDown THEN 1
    ELSE IF close < prevTrendUp THEN -1
    ELSE 0

\* Lines 106-112: trend[i].
TrendNext(prevTrend, close, prevTrendDown, prevTrendUp) ==
    IF close > prevTrendDown THEN 1
    ELSE IF close < prevTrendUp THEN -1
    ELSE prevTrend

\* Lines 43-46, 52-55: the length check and a failed ATR call.
PivotFail(r) ==
    /\ pc[r] = "pivot_entry"
    /\ \/ Insufficient(len(klineData[r]), pivotPeriod)
       \/ Insufficient(len(klineData[r]), atrPeriod)
       \/ CalculateATR(klineData[r], atrPeriod).status = "error"
    /\ pc' = [pc EXCEPT ![r] = "error"]
    /\ UNCHANGED <<parsevars, klineData, params, i, atr, hl2vars, pivotvars>>

\* Line 52: CalculateATR indexes out of range.
PivotAtrPanic(r) ==
    /\ pc[r] = "pivot_entry"
    /\ ~(\/ Insufficient(len(klineData[r]), pivotPeriod)
          \/ Insufficient(len(klineData[r]), atrPeriod))
    /\ CalculateATR(klineData[r], atrPeriod).status = "panic"
    /\ pc' = [pc EXCEPT ![r] = "panic"]
    /\ UNCHANGED <<parsevars, klineData, params, i, atr, hl2vars, pivotvars>>

\* Lines 43-60: the slices are allocated, the ATR call succeeds,
\* i := pivotPeriod.
PivotEntry(r) ==
    /\ pc[r] = "pivot_entry"
    /\ ~(\/ Insufficient(len(klineData[r]), pivotPeriod)
          \/ Insufficient(len(klineData[r]), atrPeriod))
    /\ LET a == CalculateATR(klineData[r], atrPeriod)
           dataLen == len(klineData[r])
       IN  /\ a.status = "ok"
           /\ atr' = [atr EXCEPT ![r] = a]
           /\ trendUp' = [trendUp EXCEPT ![r] = preallocate(dataLen)]
           /\ trendDown' = [trendDown EXCEPT ![r] = preallocate(dataLen)]
           /\ trend' = [trend EXCEPT ![r] = preallocate(dataLen)]
    /\ center' = [center EXCEPT ![r] = 0]
    /\ centerCount' = [centerCount EXCEPT ![r] = 0]
    /\ i' = [i EXCEPT ![r] = pivotPeriod]
    /\ pc' = [pc EXCEPT ![r] = "pivot_loop"]
    /\ UNCHANGED <<parsevars, klineData, params, hl2vars, pivotHighPoint, pivotLowPoint>>

\* Line 62 with i < 0 (pivotPeriod < 0): FindPivotHighPoint reads
\* klineData[index] out of range.
PivotIndexPanic(r) ==
    /\ pc[r] = "pivot_loop"
    /\ i[r] < len(klineData[r])
    /\ i[r] < 0
    /\ pc' = [pc EXCEPT ![r] = "panic"]
    /\ UNCHANGED <<parsevars, klineData, params, i, atr, hl2vars, pivotvars>>

\* Lines 60-119: one iteration; i > 0 takes lines 94-112, i = 0 lines 115-117.
PivotIteration(r) ==
    /\ pc[r] = "pivot_loop"
    /\ i[r] < len(klineData[r])
    /\ i[r] >= 0
    /\ LET j == i[r]
           k == klineData[r]
           pivotHigh == FindPivotHighPoint(k, atrPeriod, j, pivotPeriod)
           pivotLow == FindPivotLowPoint(k, atrPeriod, j, pivotPeriod)
           cn == CenterNext(center[r], centerCount[r], pivotHigh, pivotLow,
                            Hl2(k, atrPeriod, j))
           band == factor * atr[r].Values[j]
           upperB == cn.center + band
           lowerB == cn.center - band
       IN  /\ pivotHighPoint' = [pivotHighPoint EXCEPT ![r] = pivotHigh]
           /\ pivotLowPoint' = [pivotLowPoint EXCEPT ![r] = pivotLow]
           /\ center' = [center EXCEPT ![r] = cn.center]
           /\ centerCount' = [centerCount EXCEPT ![r] = cn.centerCount]
           /\ IF j > 0
              THEN /\ trendUp' = [trendUp EXCEPT ![r][j] =
                         TrendUpNext(lowerB, trendUp[r][j - 1],
                                     F(atrPeriod, k[j - 1].Close))]
                   /\ trendDown' = [trendDown EXCEPT ![r][j] =
                         TrendDownNext(upperB, trendDown[r][j - 1],
                                       F(atrPeriod, k[j - 1].Close))]
                   /\ trend' = [trend EXCEPT ![r][j] =
                         TrendNext(trend[r][j - 1], F(atrPeriod, k[j].Close),
                                   trendDown[r][j - 1], trendUp[r][j - 1])]
              ELSE /\ trendUp' = [trendUp EXCEPT ![r][j] = lowerB]
                   /\ trendDown' = [trendDown EXCEPT ![r][j] = upperB]
                   /\ trend' = [trend EXCEPT ![r][j] = 0]
    /\ i' = [i EXCEPT ![r] = i[r] + 1]
    /\ UNCHANGED <<parsevars, klineData, params, pc, atr, hl2vars>>

\* Lines 60, 121-128: the loop ends; Upper is trendDown, Lower is trendUp.
PivotReturn(r) ==
    /\ pc[r] = "pivot_loop"
    /\ i[r] >= len(klineData[r])
    /\ pc' = [pc EXCEPT ![r] = "done"]
    /\ UNCHANGED <<parsevars, klineData, params, i, atr, hl2vars, pivotvars>>

PivotStep(r) ==
    \/ PivotFail(r)
    \/ PivotAtrPanic(r)
    \/ PivotEntry(r)
    \/ PivotIndexPanic(r)
    \/ PivotIteration(r)
    \/ PivotReturn(r)

\* One call of CalculateSuperTrendPivot.
InitPivot ==
    /\ \E k \in KlineDatas : klineData = [r \in Runs |-> IF r = 1 THEN k ELSE <<>>]
    /\ pivotPeriod \in PivotPeriods
    /\ factor \in Multipliers
    /\ atrPeriod \in AtrPeriods
    /\ pc = [r \in Runs |-> IF r = 1 THEN "pivot_entry" ELSE "idle"]
    /\ i = [r \in Runs |-> 0]
    /\ atr = [r \in Runs |-> NoAtr]
    /\ period = 0 /\ multiplier = 0
    /\ values = Blank /\ direction = Blank
    /\ upperBand = Blank /\ lowerBand = Blank
    /\ trendUp = Blank /\ trendDown = Blank /\ trend = Blank
    /\ center = [r \in Runs |-> 0]
    /\ centerCount = [r \in Runs |-> 0]
    /\ pivotHighPoint = Blank /\ pivotLowPoint = Blank
    /\ NotParsing

NextPivot == \E r \in Runs : PivotStep(r)

SpecPivot == InitPivot /\ [][NextPivot]_vars

\* The caller calls CalculateSuperTrendPivot again, same pivotPeriod, factor
\* and atrPeriod, after the first call returned a result.
PivotCallAgain ==
    /\ pc[1] = "done" /\ pc[2] = "idle"
    /\ \E k \in Variants(klineData[1]) :
          klineData' = [klineData EXCEPT ![2] = k]
    /\ pc' = [pc EXCEPT ![2] = "pivot_entry"]
    /\ UNCHANGED <<parsevars, params, i, atr, hl2vars, pivotvars>>

NextPivotPair == NextPivot \/ PivotCallAgain

SpecPivotPair == InitPivot /\ [][NextPivotPair]_vars

(***************************************************************************)
(* A direct call of CalculateATR(klineData, period)                        *)
(***************************************************************************)
\* if len(klineData) < period { return nil, fmt.Errorf(...) }
AtrFail ==
    /\ pc[1] = "atr_entry"
    /\ CalculateATR(klineData[1], period).status = "error"
    /\ pc' = [pc EXCEPT ![1] = "error"]
    /\ UNCHANGED <<parsevars, klineData, params, i, atr, hl2vars, pivotvars>>

\* trueRange[i] of the seed loop, or atr[period], is out of range.
AtrPanic ==
    /\ pc[1] = "atr_entry"
    /\ CalculateATR(klineData[1], period).status = "panic"
    /\ pc' = [pc EXCEPT ![1] = "panic"]
    /\ UNCHANGED <<parsevars, klineData, params, i, atr, hl2vars, pivotvars>>

\* return &TaATR{Values: atr, Period: period, TrueRange: trueRange}, nil
AtrReturn ==
    /\ pc[1] = "atr_entry"
    /\ CalculateATR(klineData[1], period).status = "ok"
    /\ atr' = [atr EXCEPT ![1] = CalculateATR(klineData[1], period)]
    /\ pc' = [pc EXCEPT ![1] = "done"]
    /\ UNCHANGED <<parsevars, klineData, params, i, hl2vars, pivotvars>>

InitATR ==
    /\ \E k \in KlineDatas : klineData = [r \in Runs |-> IF r = 1 THEN k ELSE <<>>]
    /\ period \in Periods
    /\ multiplier = 0
    /\ pc = [r \in Runs |-> IF r = 1 THEN "atr_entry" ELSE "idle"]
    /\ i = [r \in Runs |-> 0]
    /\ atr = [r \in Runs |-> NoAtr]
    /\ values = Blank /\ direction = Blank
    /\ upperBand = Blank /\ lowerBand = Blank
    /\ pivotPeriod = 0 /\ factor = 0 /\ atrPeriod = 0
    /\ trendUp = Blank /\ trendDown = Blank /\ trend = Blank
    /\ center = [r \in Runs |-> 0]
    /\ centerCount = [r \in Runs |-> 0]
    /\ pivotHighPoint = Blank /\ pivotLowPoint = Blank
    /\ NotParsing

NextATR == AtrFail \/ AtrPanic \/ AtrReturn

SpecATR == InitATR /\ [][NextATR]_vars

(***************************************************************************)
(* CalculateSuperTrend                                                     *)
(***************************************************************************)
\* trend[i] of the second loop, from trend[i-1], close[i] and the raw bands.
SuperTrendTrendNext(prevTrend, close, upper, lower) ==
    IF prevTrend THEN ~(close < lower) ELSE close > upper

\* upperBand[i] after the second loop's iteration i.
SuperTrendUpperNext(prevTrend, close, upper, lower, prevUpper) ==
    IF prevTrend
    THEN (IF close < lower THEN prevUpper ELSE upper)
    ELSE (IF close > upper THEN upper ELSE Min(upper, prevUpper))

\* lowerBand[i] after the second loop's iteration i.
SuperTrendLowerNext(prevTrend, close, upper, lower, prevLower) ==
    IF prevTrend
    THEN (IF close < lower THEN lower ELSE Max(lower, prevLower))
    ELSE (IF close > upper THEN prevLower ELSE lower)

\* Lines 17-24: the length check and a failed ATR call.
SuperTrendFail(r) ==
    /\ pc[r] = "st_entry"
    /\ \/ Insufficient(len(klineData[r]), period)
       \/ CalculateATR(klineData[r], period).status = "error"
    /\ pc' = [pc EXCEPT ![r] = "error"]
    /\ UNCHANGED <<parsevars, klineData, params, i, atr, hl2vars, pivotvars>>

\* Line 21: CalculateATR indexes out of range.
SuperTrendAtrPanic(r) ==
    /\ pc[r] = "st_entry"
    /\ ~Insufficient(len(klineData[r]), period)
    /\ CalculateATR(klineData[r], period).status = "panic"
    /\ pc' = [pc EXCEPT ![r] = "panic"]
    /\ UNCHANGED <<parsevars, klineData, params, i, atr, hl2vars, pivotvars>>

\* Lines 17-41, period >= 1: the ATR call succeeds, the slices are
\* allocated, the first loop writes the raw bands of every i >= period,
\* trend[period] is set, i := period + 1.
SuperTrendEntry(r) ==
    /\ pc[r] = "st_entry"
    /\ ~Insufficient(len(klineData[r]), period)
    /\ period >= 1
    /\ LET a == CalculateATR(klineData[r], period)
           k == klineData[r]
           length == len(klineData[r])
           raw(j, sign) == Hl2(k, period, j) + sign * multiplier * a.Values[j]
           lower0 == [j \in 0 .. length - 1 |->
                        IF j >= period THEN raw(j, -1) ELSE preallocate(length)[j]]
       IN  /\ a.status = "ok"
           /\ atr' = [atr EXCEPT ![r] = a]
           /\ upperBand' = [upperBand EXCEPT ![r] =
                 [j \in 0 .. length - 1 |->
                     IF j >= period THEN raw(j, 1) ELSE preallocate(length)[j]]]
           /\ lowerBand' = [lowerBand EXCEPT ![r] = lower0]
           /\ trend' = [trend EXCEPT ![r] =
                 [j \in 0 .. length - 1 |->
                     j = period /\ F(period, k[period].Close) > lower0[period]]]
    /\ i' = [i EXCEPT ![r] = period + 1]
    /\ pc' = [pc EXCEPT ![r] = "st_loop"]
    /\ UNCHANGED <<parsevars, klineData, params, values, direction, trendUp, trendDown,
                   center, centerCount, pivotHighPoint, pivotLowPoint>>

\* Lines 17-67 with period = 0: every ATR value is NaN (0/0), so both bands
\* are NaN at every index and every comparison with them is false.
SuperTrendNaN(r) ==
    /\ pc[r] = "st_entry"
    /\ period = 0
    /\ LET a == CalculateATR(klineData[r], period)
           length == len(klineData[r])
       IN  /\ a.status = "ok"
           /\ atr' = [atr EXCEPT ![r] = a]
           /\ upperBand' = [upperBand EXCEPT ![r] = [j \in 0 .. length - 1 |-> NaN]]
           /\ lowerBand' = [lowerBand EXCEPT ![r] = [j \in 0 .. length - 1 |-> NaN]]
           /\ trend' = [trend EXCEPT ![r] = [j \in 0 .. length - 1 |-> FALSE]]
           /\ i' = [i EXCEPT ![r] = length]
    /\ pc' = [pc EXCEPT ![r] = "done"]
    /\ UNCHANGED <<parsevars, klineData, params, values, direction, trendUp, trendDown,
                   center, centerCount, pivotHighPoint, pivotLowPoint>>

\* Lines 41-59: one iteration of the second loop.
SuperTrendBody(r) ==
    /\ pc[r] = "st_loop"
    /\ i[r] < len(klineData[r])
    /\ LET j == i[r]
           close == F(period, klineData[r][j].Close)
           upper == upperBand[r][j]
           lower == lowerBand[r][j]
       IN  /\ trend' = [trend EXCEPT ![r][j] =
                 SuperTrendTrendNext(trend[r][j - 1], close, upper, lower)]
           /\ upperBand' = [upperBand EXCEPT ![r][j] =
                 SuperTrendUpperNext(trend[r][j - 1], close, upper, lower,
                                     upperBand[r][j - 1])]
           /\ lowerBand' = [lowerBand EXCEPT ![r][j] =
                 SuperTrendLowerNext(trend[r][j - 1], close, upper, lower,
                                     lowerBand[r][j - 1])]
    /\ i' = [i EXCEPT ![r] = i[r] + 1]
    /\ UNCHANGED <<parsevars, klineData, params, pc, atr, values, direction, trendUp,
                   trendDown, center, centerCount, pivotHighPoint,
                   pivotLowPoint>>

\* Lines 41, 61-67: the loop ends and the result is returned.
SuperTrendReturn(r) ==
    /\ pc[r] = "st_loop"
    /\ i[r] >= len(klineData[r])
    /\ pc' = [pc EXCEPT ![r] = "done"]
    /\ UNCHANGED <<parsevars, klineData, params, i, atr, hl2vars, pivotvars>>

SuperTrendStep(r) ==
    \/ SuperTrendFail(r)
    \/ SuperTrendAtrPanic(r)
    \/ SuperTrendEntry(r)
    \/ SuperTrendNaN(r)
    \/ SuperTrendBody(r)
    \/ SuperTrendReturn(r)

\* One call of CalculateSuperTrend.
InitSuperTrend ==
    /\ \E k \in KlineDatas : klineData = [r \in Runs |-> IF r = 1 THEN k ELSE <<>>]
    /\ period \in Periods
    /\ multiplier \in Multipliers
    /\ pc = [r \in Runs |-> IF r = 1 THEN "st_entry" ELSE "idle"]
    /\ i = [r \in Runs |-> 0]
    /\ atr = [r \in Runs |-> NoAtr]
    /\ values = Blank /\ direction = Blank
    /\ upperBand = Blank /\ lowerBand = Blank
    /\ pivotPeriod = 0 /\ factor = 0 /\ atrPeriod = 0
    /\ trendUp = Blank /\ trendDown = Blank /\ trend = Blank
    /\ center = [r \in Runs |-> 0]
    /\ centerCount = [r \in Runs |-> 0]
    /\ pivotHighPoint = Blank /\ pivotLowPoint = Blank
    /\ NotParsing

NextSuperTrend == \E r \in Runs : SuperTrendStep(r)

SpecSuperTrend == InitSuperTrend /\ [][NextSuperTrend]_vars

(***************************************************************************)
(* One call of any of the three SuperTrend functions                       *)
(***************************************************************************)
InitAny == Init \/ InitPivot \/ InitSuperTrend

NextAny == Next \/ NextPivot \/ NextSuperTrend

SpecAny == InitAny /\ [][NextAny]_vars

(***************************************************************************)
(* CalculateSuperTrendPivotHl2 on rising series: strictly increasing       *)
(* closes, High = Close + s and Low = Close - s for one s per series.      *)
(***************************************************************************)
\* Longest rising series (the Wilder recursion stays exact in 1/Unit(p) up
\* to MaxLen + 3 bars for the periods drawn).
RisingLen == MaxLen + 2
\* The closes of a rising series (Low = Close - s stays a price >= 0).
RisingCloses == 1 .. MaxPrice + RisingLen
\* Half the high-low spread.
HalfSpreads == {0, 1}

RisingOfLen(n) ==
    {[j \in 0 .. n - 1 |->
         [High |-> c[j] + s, Low |-> c[j] - s, Close |-> c[j]]] :
       c \in {f \in [0 .. n - 1 -> RisingCloses] :
                 \A j \in 1 .. n - 1 : f[j - 1] < f[j]},
       s \in HalfSpreads}

RisingKlineDatas == UNION {RisingOfLen(n) : n \in 0 .. RisingLen}

InitRising ==
    /\ \E k \in RisingKlineDatas :
          klineData = [r \in Runs |-> IF r = 1 THEN k ELSE <<>>]
    /\ period \in Periods
    /\ multiplier \in Multipliers
    /\ pc = [r \in Runs |-> IF r = 1 THEN "hl2_entry" ELSE "idle"]
    /\ i = [r \in Runs |-> 0]
    /\ atr = [r \in Runs |-> NoAtr]
    /\ values = Blank /\ direction = Blank
    /\ upperBand = Blank /\ lowerBand = Blank
    /\ pivotPeriod = 0 /\ factor = 0 /\ atrPeriod = 0
    /\ trendUp = Blank /\ trendDown = Blank /\ trend = Blank
    /\ center = [r \in Runs |-> 0]
    /\ centerCount = [r \in Runs |-> 0]
    /\ pivotHighPoint = Blank /\ pivotLowPoint = Blank
    /\ NotParsing

SpecRising == InitRising /\ [][Next]_vars

(***************************************************************************)
(* CalculateSuperTrendPivotHl2 on the linear series close[j] = 100 + j,    *)
(* high = close + 1, low = close - 1, and on its prefixes.                 *)
(***************************************************************************)
LinearOfLen(n) ==
    [j \in 0 .. n - 1 |->
        [High |-> 100 + j + 1, Low |-> 100 + j - 1, Close |-> 100 + j]]

LinearKlineDatas == {LinearOfLen(n) : n \in 0 .. 20}

InitLinear ==
    /\ \E k \in LinearKlineDatas :
          klineData = [r \in Runs |-> IF r = 1 THEN k ELSE <<>>]
    /\ period \in {0, 10}
    /\ multiplier \in {1, 3}
    /\ pc = [r \in Runs |-> IF r = 1 THEN "hl2_entry" ELSE "idle"]
    /\ i = [r \in Runs |-> 0]
    /\ atr = [r \in Runs |-> NoAtr]
    /\ values = Blank /\ direction = Blank
    /\ upperBand = Blank /\ lowerBand = Blank
    /\ pivotPeriod = 0 /\ factor = 0 /\ atrPeriod = 0
    /\ trendUp = Blank /\ trendDown = Blank /\ trend = Blank
    /\ center = [r \in Runs |-> 0]
    /\ centerCount = [r \in Runs |-> 0]
    /\ pivotHighPoint = Blank /\ pivotLowPoint = Blank
    /\ NotParsing

SpecLinear == InitLinear /\ [][Next]_vars

(***************************************************************************)
(* CalculateSuperTrendPivotHl2 on series one bar longer than MaxLen, long  *)
(* enough for a reset of the bands followed by a gap.                      *)
(***************************************************************************)
GapPrices == {0, 1, 2}

GapBars == {b \in [High : GapPrices, Low : GapPrices, Close : GapPrices] :
               /\ b.Low <= b.Close /\ b.Close <= b.High
               /\ b.High - b.Low <= 1}

GapKlineDatas == UNION {[0 .. n - 1 -> GapBars] : n \in 0 .. MaxLen + 1}

InitGap ==
    /\ \E k \in GapKlineDatas :
          klineData = [r \in Runs |-> IF r = 1 THEN k ELSE <<>>]
    /\ period \in Periods
    /\ multiplier \in Multipliers
    /\ pc = [r \in Runs |-> IF r = 1 THEN "hl2_entry" ELSE "idle"]
    /\ i = [r \in Runs |-> 0]
    /\ atr = [r \in Runs |-> NoAtr]
    /\ values = Blank /\ direction = Blank
    /\ upperBand = Blank /\ lowerBand = Blank
    /\ pivotPeriod = 0 /\ factor = 0 /\ atrPeriod = 0
    /\ trendUp = Blank /\ trendDown = Blank /\ trend = Blank
    /\ center = [r \in Runs |-> 0]
    /\ centerCount = [r \in Runs |-> 0]
    /\ pivotHighPoint = Blank /\ pivotLowPoint = Blank
    /\ NotParsing

SpecGap == InitGap /\ [][Next]_vars

(***************************************************************************)
(* Direct calls of FindPivotHighPoint(klineData, index, period) and        *)
(* FindPivotLowPoint(klineData, index, period), period >= 0.               *)
(***************************************************************************)
FindPivotHigh ==
    /\ pc[1] = "find_high"
    /\ pivotHighPoint' = [pivotHighPoint EXCEPT ![1] =
          FindPivotHighPoint(klineData[1], atrPeriod, i[1], pivotPeriod)]
    /\ pc' = [pc EXCEPT ![1] = "find_low"]
    /\ UNCHANGED <<parsevars, klineData, params, i, atr, hl2vars, trendUp, trendDown,
                   trend, center, centerCount, pivotLowPoint>>

FindPivotLow ==
    /\ pc[1] = "find_low"
    /\ pivotLowPoint' = [pivotLowPoint EXCEPT ![1] =
          FindPivotLowPoint(klineData[1], atrPeriod, i[1], pivotPeriod)]
    /\ pc' = [pc EXCEPT ![1] = "done"]
    /\ UNCHANGED <<parsevars, klineData, params, i, atr, hl2vars, trendUp, trendDown,
                   trend, center, centerCount, pivotHighPoint>>

\* index is any int up to len(klineData), period is 0, 1 or 2.
InitFindPivot ==
    /\ \E k \in KlineDatas : klineData = [r \in Runs |-> IF r = 1 THEN k ELSE <<>>]
    /\ \E index \in -1 .. MaxLen : i = [r \in Runs |-> IF r = 1 THEN index ELSE 0]
    /\ pivotPeriod \in 0 .. 2
    /\ atrPeriod = 1 /\ factor = 0
    /\ period = 0 /\ multiplier = 0
    /\ pc = [r \in Runs |-> IF r = 1 THEN "find_high" ELSE "idle"]
    /\ atr = [r \in Runs |-> NoAtr]
    /\ values = Blank /\ direction = Blank
    /\ upperBand = Blank /\ lowerBand = Blank
    /\ trendUp = Blank /\ trendDown = Blank /\ trend = Blank
    /\ center = [r \in Runs |-> 0]
    /\ centerCount = [r \in Runs |-> 0]
    /\ pivotHighPoint = Blank /\ pivotLowPoint = Blank
    /\ NotParsing

NextFindPivot == FindPivotHigh \/ FindPivotLow

SpecFindPivot == InitFindPivot /\ [][NextFindPivot]_vars

(***************************************************************************)
(* CalculateSuperTrend with period 3 on series of up to MaxLen + 2 tall    *)
(* bars: the shortest calls in which the trend flips from Up to Down.      *)
(***************************************************************************)
\* Candles with Low = 0 and High up to 2.
TallBars == {b \in [High : {0, 1, 2}, Low : {0}, Close : {0, 1, 2}] :
                b.Close <= b.High}

TallKlineDatas == UNION {[0 .. n - 1 -> TallBars] : n \in 0 .. MaxLen + 2}

InitSuperTrendTall ==
    /\ \E k \in TallKlineDatas :
          klineData = [r \in Runs |-> IF r = 1 THEN k ELSE <<>>]
    /\ period \in {-1, 0, 3}
    /\ multiplier \in Multipliers
    /\ pc = [r \in Runs |-> IF r = 1 THEN "st_entry" ELSE "idle"]
    /\ i = [r \in Runs |-> 0]
    /\ atr = [r \in Runs |-> NoAtr]
    /\ values = Blank /\ direction = Blank
    /\ upperBand = Blank /\ lowerBand = Blank
    /\ pivotPeriod = 0 /\ factor = 0 /\ atrPeriod = 0
    /\ trendUp = Blank /\ trendDown = Blank /\ trend = Blank
    /\ center = [r \in Runs |-> 0]
    /\ centerCount = [r \in Runs |-> 0]
    /\ pivotHighPoint = Blank /\ pivotLowPoint = Blank
    /\ NotParsing

SpecSuperTrendTall == InitSuperTrendTall /\ [][NextSuperTrend]_vars

(***************************************************************************)
(* Methods of TaSuperTrendPivot that read the last two trend values        *)
(***************************************************************************)
\* t.Trend[lastIndex] != t.Trend[lastIndex-1]
IsTrendChange(t) ==
    IF len(t) < 2 THEN FALSE ELSE t[len(t) - 1] # t[len(t) - 2]

\* t.Trend[lastIndex-1] <= 0 && t.Trend[lastIndex] == 1
IsBullishCross(t) ==
    IF len(t) < 2 THEN FALSE ELSE t[len(t) - 2] <= 0 /\ t[len(t) - 1] = 1

\* t.Trend[lastIndex-1] >= 0 && t.Trend[lastIndex] == -1
IsBearishCross(t) ==
    IF len(t) < 2 THEN FALSE ELSE t[len(t) - 2] >= 0 /\ t[len(t) - 1] = -1

(***************************************************************************)
(* CalculateSuperTrendPivotHl2 with period 3 on a quiet series closed by   *)
(* one wide candle: the ATR of the wide candle is a third of its range.    *)
(***************************************************************************)
\* Candles of the quiet stretch.
QuietBars == {b \in [High : {0, 1}, Low : {0}, Close : {0}] : TRUE}

\* Candles with High up to 4.
WideBars == {b \in [High : 0 .. 4, Low : 0 .. 4, Close : 0 .. 4] :
                b.Low <= b.Close /\ b.Close <= b.High}

SpikeKlineDatas ==
    UNION {{k \in [0 .. n - 1 -> QuietBars \cup WideBars] :
               \A j \in 0 .. n - 1 : j < 3 => k[j] \in QuietBars} :
           n \in 0 .. 4}

InitSpike ==
    /\ \E k \in SpikeKlineDatas :
          klineData = [r \in Runs |-> IF r = 1 THEN k ELSE <<>>]
    /\ period \in {-1, 0, 3}
    /\ multiplier \in Multipliers
    /\ pc = [r \in Runs |-> IF r = 1 THEN "hl2_entry" ELSE "idle"]
    /\ i = [r \in Runs |-> 0]
    /\ atr = [r \in Runs |-> NoAtr]
    /\ values = Blank /\ direction = Blank
    /\ upperBand = Blank /\ lowerBand = Blank
    /\ pivotPeriod = 0 /\ factor = 0 /\ atrPeriod = 0
    /\ trendUp = Blank /\ trendDown = Blank /\ trend = Blank
    /\ center = [r \in Runs |-> 0]
    /\ centerCount = [r \in Runs |-> 0]
    /\ pivotHighPoint = Blank /\ pivotLowPoint = Blank
    /\ NotParsing

SpecSpike == InitSpike /\ [][Next]_vars

(***************************************************************************)
(* KlineDatas.SuperTrendPivotHl2_ (run 2) next to the full computation     *)
(* KlineDatas.SuperTrendPivotHl2 on the same series (run 1).               *)
(***************************************************************************)
\* Keep(n): an error for n <= 0 or n above the length, else a copy of the
\* last n bars.
Keep(k, n) ==
    IF n <= 0 \/ len(k) < n
    THEN [err |-> TRUE, k |-> <<>>]
    ELSE [err |-> FALSE, k |-> [j \in 0 .. n - 1 |-> k[len(k) - n + j]]]

\* _k, err := k.Keep(period * 2); if err != nil { _k = *k }
SuperTrendPivotHl2_Keep(r) ==
    /\ pc[r] = "keep"
    /\ LET kept == Keep(klineData[r], period * 2)
       IN  klineData' = [klineData EXCEPT
                            ![r] = IF kept.err THEN klineData[r] ELSE kept.k]
    /\ pc' = [pc EXCEPT ![r] = "hl2_entry"]
    /\ UNCHANGED <<parsevars, params, i, atr, hl2vars, pivotvars>>

\* if err != nil { return 0 }
SuperTrendPivotHl2_Zero(r) ==
    /\ pc[r] = "error"
    /\ pc' = [pc EXCEPT ![r] = "returned_zero"]
    /\ UNCHANGED <<parsevars, klineData, params, i, atr, hl2vars, pivotvars>>

\* return st.Value(): t.Values[len(t.Values)-1], out of range on an empty
\* result.
SuperTrendPivotHl2_Value(r) ==
    /\ pc[r] = "done"
    /\ pc' = [pc EXCEPT ![r] = IF len(values[r]) = 0 THEN "panic"
                               ELSE "returned"]
    /\ UNCHANGED <<parsevars, klineData, params, i, atr, hl2vars, pivotvars>>

\* What run r returned.
Returned(r) ==
    IF pc[r] = "returned" THEN values[r][len(values[r]) - 1] ELSE 0

InitLatest ==
    /\ \E k \in KlineDatas : klineData = [r \in Runs |-> k]
    /\ period \in Periods
    /\ multiplier \in Multipliers
    /\ pc = [r \in Runs |-> IF r = 1 THEN "hl2_entry" ELSE "keep"]
    /\ i = [r \in Runs |-> 0]
    /\ atr = [r \in Runs |-> NoAtr]
    /\ values = Blank /\ direction = Blank
    /\ upperBand = Blank /\ lowerBand = Blank
    /\ pivotPeriod = 0 /\ factor = 0 /\ atrPeriod = 0
    /\ trendUp = Blank /\ trendDown = Blank /\ trend = Blank
    /\ center = [r \in Runs |-> 0]
    /\ centerCount = [r \in Runs |-> 0]
    /\ pivotHighPoint = Blank /\ pivotLowPoint = Blank
    /\ NotParsing

NextLatest ==
    \/ Hl2Step(1)
    \/ /\ pc[1] \in {"done", "error", "panic"}
       /\ \/ SuperTrendPivotHl2_Keep(2)
          \/ Hl2Step(2)
          \/ SuperTrendPivotHl2_Zero(2)
          \/ SuperTrendPivotHl2_Value(2)

SpecLatest == InitLatest /\ [][NextLatest]_vars

(***************************************************************************)
(* NewKlineDatas, the parallel path: the spawning loop, one goroutine per  *)
(* worker, the goroutine that closes errChan after wg.Wait(), and the      *)
(* range over errChan.  Row counts are scaled down; the worker count is    *)
(* whatever runtime.NumCPU() reports, also above the row count.            *)
(***************************************************************************)
\* batchSize := length / workers; if batchSize == 0 { batchSize = 1 }
BatchSize(length, n) == IF length \div n = 0 THEN 1 ELSE length \div n

\* start := i * batchSize
RangeStart(length, n, w) == w * BatchSize(length, n)

RangeEndNoTail(length, n, w) ==
    RangeStart(length, n, w) + BatchSize(length, n)

\* end := start + batchSize; if i == workers-1 { end = length }
RangeEnd(length, n, w) ==
    IF w = n - 1 THEN length
    ELSE RangeStart(length, n, w) + BatchSize(length, n)

\* The indices worker w loops over: for i := start; i < end; i++
RangeOf(length, n, w) ==
    {j \in 0 .. length + n :
        RangeStart(length, n, w) <= j /\ j < RangeEnd(length, n, w)}

Workers == 0 .. workers - 1

\* A goroutine panicked: the process is gone.
Crashed == mainPc = "panic"

\* wg.Add(1); go func(start, end int) {...}(start, end)
Spawn ==
    /\ mainPc = "spawn" /\ spawned < workers
    /\ wg' = wg + 1
    /\ worker' = [worker EXCEPT ![spawned] =
                     [pc |-> "running",
                      i |-> RangeStart(rows, workers, spawned)]]
    /\ spawned' = spawned + 1
    /\ UNCHANGED <<rows, workers, invalidRows, klineDataList, errChan, mainPc>>
    /\ UNCHANGED <<klineData, params, pc, i, atr, hl2vars, pivotvars>>

\* The loop is over: go func() { wg.Wait(); close(errChan) }() is started
\* and the caller ranges over errChan.
SpawnDone ==
    /\ mainPc = "spawn" /\ spawned = workers
    /\ mainPc' = "range"
    /\ UNCHANGED <<rows, workers, invalidRows, klineDataList, worker, wg,
                   errChan, spawned>>
    /\ UNCHANGED <<klineData, params, pc, i, atr, hl2vars, pivotvars>>

\* One iteration of worker w on a row that converts:
\* klineDataList[i] = &KlineData{...}
WorkerWrite(w) ==
    /\ ~Crashed
    /\ worker[w].pc = "running"
    /\ worker[w].i < RangeEnd(rows, workers, w)
    /\ worker[w].i < rows
    /\ worker[w].i \notin invalidRows
    /\ klineDataList' = [klineDataList EXCEPT ![worker[w].i] = @ + 1]
    /\ worker' = [worker EXCEPT ![w].i = @ + 1]
    /\ UNCHANGED <<rows, workers, invalidRows, wg, errChan, spawned, mainPc>>
    /\ UNCHANGED <<klineData, params, pc, i, atr, hl2vars, pivotvars>>

\* One iteration of worker w on a row that fails: errChan <- err; return,
\* with the deferred wg.Done().  The send waits while the buffer is full.
WorkerFail(w) ==
    /\ ~Crashed
    /\ worker[w].pc = "running"
    /\ worker[w].i < RangeEnd(rows, workers, w)
    /\ worker[w].i < rows
    /\ worker[w].i \in invalidRows
    /\ len(errChan.buf) < rows
    /\ errChan' = [errChan EXCEPT !.buf = Append(@, worker[w].i + 1)]
    /\ worker' = [worker EXCEPT ![w].pc = "done"]
    /\ wg' = wg - 1
    /\ UNCHANGED <<rows, workers, invalidRows, klineDataList, spawned, mainPc>>
    /\ UNCHANGED <<klineData, params, pc, i, atr, hl2vars, pivotvars>>

\* An index at or above length: klineDataList[i] is out of range.
WorkerIndexPanic(w) ==
    /\ ~Crashed
    /\ worker[w].pc = "running"
    /\ worker[w].i < RangeEnd(rows, workers, w)
    /\ worker[w].i >= rows
    /\ mainPc' = "panic"
    /\ UNCHANGED <<rows, workers, invalidRows, klineDataList, worker, wg,
                   errChan, spawned>>
    /\ UNCHANGED <<klineData, params, pc, i, atr, hl2vars, pivotvars>>

\* The loop of worker w is over: the deferred wg.Done().
WorkerDone(w) ==
    /\ ~Crashed
    /\ worker[w].pc = "running"
    /\ worker[w].i >= RangeEnd(rows, workers, w)
    /\ worker' = [worker EXCEPT ![w].pc = "done"]
    /\ wg' = wg - 1
    /\ UNCHANGED <<rows, workers, invalidRows, klineDataList, errChan, spawned,
                   mainPc>>
    /\ UNCHANGED <<klineData, params, pc, i, atr, hl2vars, pivotvars>>

\* go func() { wg.Wait(); close(errChan) }()
CloseErrChan ==
    /\ ~Crashed
    /\ mainPc \in {"range", "returned", "returned_err"}
    /\ ~errChan.closed
    /\ wg = 0
    /\ errChan' = [errChan EXCEPT !.closed = TRUE]
    /\ UNCHANGED <<rows, workers, invalidRows, klineDataList, worker, wg,
                   spawned, mainPc>>
    /\ UNCHANGED <<klineData, params, pc, i, atr, hl2vars, pivotvars>>

\* for err := range errChan { if err != nil { return nil, err } }
RangeError ==
    /\ mainPc = "range"
    /\ errChan.buf # <<>>
    /\ errChan' = [errChan EXCEPT !.buf = Tail(@)]
    /\ mainPc' = "returned_err"
    /\ UNCHANGED <<rows, workers, invalidRows, klineDataList, worker, wg,
                   spawned>>
    /\ UNCHANGED <<klineData, params, pc, i, atr, hl2vars, pivotvars>>

\* The range ends on the closed, drained channel: return klineDataList, nil
RangeClosed ==
    /\ mainPc = "range"
    /\ errChan.buf = <<>> /\ errChan.closed
    /\ mainPc' = "returned"
    /\ UNCHANGED <<rows, workers, invalidRows, klineDataList, worker, wg,
                   errChan, spawned>>
    /\ UNCHANGED <<klineData, params, pc, i, atr, hl2vars, pivotvars>>

InitNewKlineDatas ==
    /\ rows \in 1 .. MaxLen + 1
    /\ workers \in 1 .. MaxLen
    /\ invalidRows \in SUBSET (0 .. rows - 1)
    /\ klineDataList = [j \in 0 .. rows - 1 |-> 0]
    /\ worker = [w \in 0 .. workers - 1 |-> [pc |-> "unspawned", i |-> 0]]
    /\ wg = 0
    /\ errChan = [buf |-> <<>>, closed |-> FALSE]
    /\ spawned = 0
    /\ mainPc = "spawn"
    /\ klineData = [r \in Runs |-> <<>>]
    /\ period = 0 /\ multiplier = 0
    /\ pc = [r \in Runs |-> "idle"]
    /\ i = [r \in Runs |-> 0]
    /\ atr = [r \in Runs |-> NoAtr]
    /\ values = Blank /\ direction = Blank
    /\ upperBand = Blank /\ lowerBand = Blank
    /\ pivotPeriod = 0 /\ factor = 0 /\ atrPeriod = 0
    /\ trendUp = Blank /\ trendDown = Blank /\ trend = Blank
    /\ center = [r \in Runs |-> 0]
    /\ centerCount = [r \in Runs |-> 0]
    /\ pivotHighPoint = Blank /\ pivotLowPoint = Blank

NextNewKlineDatas ==
    \/ Spawn
    \/ SpawnDone
    \/ \E w \in Workers : WorkerWrite(w)
    \/ \E w \in Workers : WorkerFail(w)
    \/ \E w \in Workers : WorkerIndexPanic(w)
    \/ \E w \in Workers : WorkerDone(w)
    \/ CloseErrChan
    \/ RangeError
    \/ RangeClosed

SpecNewKlineDatas == InitNewKlineDatas /\ [][NextNewKlineDatas]_vars

(***************************************************************************)
(* Properties of the result of CalculateSuperTrendPivotHl2 (run 1)         *)
(***************************************************************************)
\* Run r returned a result.
Result(r) == pc[r] = "done"
\* The bars of run r that are past the warm-up prefix.
Scope(r) == {j \in DOMAIN klineData[r] : j >= period /\ j >= 1}
Close(r, j) == F(period, klineData[r][j].Close)
\* The raw candidates of bar j, from the series and the ATR of the run.
RawLower(r, j) == Hl2(klineData[r], period, j) - multiplier * atr[r].Values[j]
RawUpper(r, j) == Hl2(klineData[r], period, j) + multiplier * atr[r].Values[j]

\* C1: at every bar i >= period whose previous direction is Up, the
\* direction is Down exactly when close[i] < LowerBand[i]; a close equal to
\* the band keeps the direction Up.
C1_FlipDownIffCloseBelowLower ==
    Result(1) =>
        \A j \in Scope(1) :
            direction[1][j - 1] = 1 =>
                /\ direction[1][j] = -1 <=> Close(1, j) < lowerBand[1][j]
                /\ Close(1, j) = lowerBand[1][j] => direction[1][j] = 1

\* C1 witness: an Up bar is followed by a bar that closes exactly on its
\* lower band and stays Up.
C1_Witness ==
    /\ Result(1)
    /\ \E j \in Scope(1) :
          /\ direction[1][j - 1] = 1
          /\ Close(1, j) = lowerBand[1][j]
          /\ direction[1][j] = 1

\* C2: at every bar i >= period whose previous direction is 0 or -1, the
\* direction is Up exactly when close[i] > UpperBand[i] and Down otherwise;
\* a close equal to the band gives Down.
C2_FlipUpIffCloseAboveUpper ==
    Result(1) =>
        \A j \in Scope(1) :
            direction[1][j - 1] # 1 =>
                /\ direction[1][j] = 1 <=> Close(1, j) > upperBand[1][j]
                /\ direction[1][j] # 1 => direction[1][j] = -1
                /\ Close(1, j) = upperBand[1][j] => direction[1][j] = -1

\* C2 witness: after a Down bar, a bar closes exactly on its upper band.
C2_Witness ==
    /\ Result(1)
    /\ \E j \in Scope(1) :
          /\ direction[1][j - 1] = -1
          /\ Close(1, j) = upperBand[1][j]
          /\ direction[1][j] = -1

\* C3: past the warm-up, LowerBand[i] is the raw candidate
\* hl2[i] - multiplier*ATR[i] when that is greater than LowerBand[i-1] or
\* when close[i-1] < LowerBand[i-1], and LowerBand[i-1] in every other case.
C3_LowerBandRule ==
    Result(1) =>
        \A j \in Scope(1) :
            lowerBand[1][j] =
                IF \/ RawLower(1, j) > lowerBand[1][j - 1]
                   \/ Close(1, j - 1) < lowerBand[1][j - 1]
                THEN RawLower(1, j) ELSE lowerBand[1][j - 1]

\* C3 witness: the reset case alone decides a bar (the candidate is lower
\* than the previous band, the previous close was below the band).
C3_Witness ==
    /\ Result(1)
    /\ \E j \in Scope(1) :
          /\ RawLower(1, j) < lowerBand[1][j - 1]
          /\ Close(1, j - 1) < lowerBand[1][j - 1]
          /\ lowerBand[1][j] = RawLower(1, j)

\* C4: past the warm-up, UpperBand[i] is the raw candidate
\* hl2[i] + multiplier*ATR[i] when that is less than UpperBand[i-1] or when
\* close[i-1] > UpperBand[i-1], and UpperBand[i-1] in every other case.
C4_UpperBandRule ==
    Result(1) =>
        \A j \in Scope(1) :
            upperBand[1][j] =
                IF \/ RawUpper(1, j) < upperBand[1][j - 1]
                   \/ Close(1, j - 1) > upperBand[1][j - 1]
                THEN RawUpper(1, j) ELSE upperBand[1][j - 1]

\* C4 witness: the reset case alone decides a bar.
C4_Witness ==
    /\ Result(1)
    /\ \E j \in Scope(1) :
          /\ RawUpper(1, j) > upperBand[1][j - 1]
          /\ Close(1, j - 1) > upperBand[1][j - 1]
          /\ upperBand[1][j] = RawUpper(1, j)

\* C5: at every index i >= 1 whose direction is Up, LowerBand[i] is at
\* least LowerBand[i-1] unless close[i-1] < LowerBand[i-1].
C5_Ratchet ==
    Result(1) =>
        \A j \in DOMAIN klineData[1] :
            (j >= 1 /\ direction[1][j] = 1) =>
                \/ lowerBand[1][j] >= lowerBand[1][j - 1]
                \/ Close(1, j - 1) < lowerBand[1][j - 1]

\* C5 witness: an Up bar whose candidate lies below the previous band, with
\* no reset: the band is held, and at another Up bar it has risen.
C5_Witness ==
    /\ Result(1)
    /\ \E j \in Scope(1) :
          /\ direction[1][j] = 1
          /\ RawLower(1, j) < lowerBand[1][j - 1]
          /\ ~(Close(1, j - 1) < lowerBand[1][j - 1])
          /\ lowerBand[1][j] = lowerBand[1][j - 1]

\* The two series agree on bars 0..n.
AgreeUpTo(n) ==
    /\ n \in DOMAIN klineData[1] /\ n \in DOMAIN klineData[2]
    /\ \A j \in 0 .. n : klineData[1][j] = klineData[2][j]

\* C6: two calls, same period and multiplier, on series that agree on bars
\* 0..i give the same Values[i], Direction[i], UpperBand[i], LowerBand[i]
\* and use the same ATR value at i.
C6_Causality ==
    (Result(1) /\ Result(2)) =>
        \A n \in DOMAIN klineData[1] :
            AgreeUpTo(n) =>
                /\ values[1][n] = values[2][n]
                /\ direction[1][n] = direction[2][n]
                /\ upperBand[1][n] = upperBand[2][n]
                /\ lowerBand[1][n] = lowerBand[2][n]
                /\ atr[1].Values[n] = atr[2].Values[n]

\* C6 witness: both calls returned, the series agree up to a bar past the
\* warm-up and differ in a later bar, and the ATR of a later bar differs.
C6_Witness ==
    /\ Result(1) /\ Result(2)
    /\ \E n \in Scope(1) :
          /\ AgreeUpTo(n)
          /\ n + 1 \in DOMAIN klineData[1] /\ n + 1 \in DOMAIN klineData[2]
          /\ klineData[1][n + 1] # klineData[2][n + 1]
          /\ atr[1].Values[n + 1] # atr[2].Values[n + 1]

\* C7: in CalculateSuperTrendPivot the output at index i (Upper, Lower and
\* Trend) does not depend on any bar after i: two calls, same pivotPeriod,
\* factor and atrPeriod, on series that agree on bars 0..i give the same
\* output at i (a pivot at bar j acts on the center only from j+pivotPeriod).
C7_PivotCausality ==
    (Result(1) /\ Result(2)) =>
        \A n \in DOMAIN klineData[1] :
            AgreeUpTo(n) =>
                /\ trendDown[1][n] = trendDown[2][n]
                /\ trendUp[1][n] = trendUp[2][n]
                /\ trend[1][n] = trend[2][n]

\* C8: at every bar i >= period, Values[i] is LowerBand[i] when the
\* direction is Up and UpperBand[i] when it is Down.
C8_ValueIsActiveBand ==
    Result(1) =>
        \A j \in Scope(1) :
            /\ direction[1][j] = 1 => values[1][j] = lowerBand[1][j]
            /\ direction[1][j] = -1 => values[1][j] = upperBand[1][j]

\* C8 witness: a result with an Up bar and a Down bar whose bands differ.
C8_Witness ==
    /\ Result(1)
    /\ \E j \in Scope(1) :
          direction[1][j] = 1 /\ lowerBand[1][j] # upperBand[1][j]
    /\ \E j \in Scope(1) :
          direction[1][j] = -1 /\ lowerBand[1][j] # upperBand[1][j]

\* C9: the result has one direction per index; it is 0 exactly at the
\* indices i < period and 1 or -1 at every i >= period.
C9_DirectionDomain ==
    Result(1) =>
        /\ DOMAIN direction[1] = DOMAIN klineData[1]
        /\ \A j \in DOMAIN klineData[1] :
              /\ direction[1][j] = 0 <=> j < period
              /\ j >= period => direction[1][j] \in {1, -1}

\* C9 witness: a result with a warm-up prefix, an Up bar and a Down bar.
C9_Witness ==
    /\ Result(1)
    /\ period >= 1
    /\ \E j \in Scope(1) : direction[1][j] = 1
    /\ \E j \in Scope(1) : direction[1][j] = -1

\* C10 as stated: every index i < period holds 0 in Values, UpperBand and
\* LowerBand and 0 in Direction.
C10_WarmupIsZero ==
    Result(1) =>
        \A j \in DOMAIN klineData[1] :
            j < period =>
                /\ values[1][j] = 0
                /\ upperBand[1][j] = 0
                /\ lowerBand[1][j] = 0
                /\ direction[1][j] = 0

\* C10 amended: every index i < period holds hl2[i] = (high[i]+low[i])/2 in
\* Values, UpperBand and LowerBand (the ATR is 0 there) and 0 in Direction.
C10_WarmupIsHl2 ==
    Result(1) =>
        \A j \in DOMAIN klineData[1] :
            j < period =>
                /\ values[1][j] = Hl2(klineData[1], period, j)
                /\ upperBand[1][j] = Hl2(klineData[1], period, j)
                /\ lowerBand[1][j] = Hl2(klineData[1], period, j)
                /\ direction[1][j] = 0

\* C10 witness: a result whose warm-up prefix has a bar with hl2 # 0.
C10_Witness ==
    /\ Result(1)
    /\ \E j \in DOMAIN klineData[1] :
          j < period /\ Hl2(klineData[1], period, j) # 0

\* C11: at the first bar past the warm-up (i = period) both bands are the
\* raw candidates hl2[period] +/- multiplier*ATR[period], whatever the
\* warm-up bar period-1 holds.
C11_FirstBarSeededRaw ==
    (Result(1) /\ period >= 1) =>
        /\ upperBand[1][period] = RawUpper(1, period)
        /\ lowerBand[1][period] = RawLower(1, period)

\* C12: in every result the four slices have exactly len(series) elements.
C12_ResultLengths ==
    Result(1) =>
        /\ DOMAIN values[1] = 0 .. len(klineData[1]) - 1
        /\ DOMAIN direction[1] = 0 .. len(klineData[1]) - 1
        /\ DOMAIN upperBand[1] = 0 .. len(klineData[1]) - 1
        /\ DOMAIN lowerBand[1] = 0 .. len(klineData[1]) - 1
        /\ len(values[1]) = len(klineData[1])

\* C12 witness: a result for the longest series, every slot written.
C12_Witness ==
    /\ Result(1)
    /\ len(klineData[1]) = MaxLen
    /\ i[1] = MaxLen
    /\ \E j \in DOMAIN values[1] : values[1][j] # 0

(***************************************************************************)
(* Properties of a direct call of CalculateATR                             *)
(***************************************************************************)
\* The call is over: it returned a value or an error, or it panicked.
AtrOver == pc[1] \in {"done", "error", "panic"}

\* C13: for every series with len(series) <= period, the boundary
\* len(series) = period included, CalculateATR returns an error and no
\* result, and does not abort.
C13_ErrorUpToPeriod ==
    (AtrOver /\ len(klineData[1]) <= period) =>
        (pc[1] = "error" /\ atr[1] = NoAtr)

\* C19: TrueRange[0] = 0; for i >= 1 TrueRange[i] is the greatest of
\* high[i]-low[i], |high[i]-close[i-1]| and |low[i]-close[i-1]|; Values are 0
\* below index period, and Values[period] is the mean of TrueRange[1..period].
C19_TrueRangeAndSeed ==
    (pc[1] = "done" /\ period >= 1) =>
        LET k == klineData[1]
            tr == atr[1].TrueRange
            hl(j) == F(period, k[j].High - k[j].Low)
            hc(j) == F(period, Abs(k[j].High - k[j - 1].Close))
            lc(j) == F(period, Abs(k[j].Low - k[j - 1].Close))
        IN  /\ DOMAIN tr = DOMAIN k /\ DOMAIN atr[1].Values = DOMAIN k
            /\ tr[0] = 0
            /\ \A j \in DOMAIN k : j >= 1 =>
                  /\ tr[j] \in {hl(j), hc(j), lc(j)}
                  /\ tr[j] >= hl(j) /\ tr[j] >= hc(j) /\ tr[j] >= lc(j)
            /\ \A j \in DOMAIN k : j < period => atr[1].Values[j] = 0
            /\ atr[1].Values[period] * period = SumTo(tr, 1, period)

\* C19 witness: a value was returned for a series with a gap (the true range
\* of some bar exceeds its high-low) and a seed that is not 0.
C19_Witness ==
    /\ pc[1] = "done" /\ period = 2 /\ len(klineData[1]) = MaxLen
    /\ atr[1].Values[period] > 0
    /\ \E j \in 1 .. period :
          atr[1].TrueRange[j] >
              F(period, klineData[1][j].High - klineData[1][j].Low)

(***************************************************************************)
(* Properties of a call of any of the three SuperTrend functions           *)
(***************************************************************************)
\* The call of run r is over: a result, an error, or a panic.
Over(r) == pc[r] \in {"done", "error", "panic"}
\* No slice of a result is allocated for run r: the result is nil.
NilResult(r) ==
    /\ values[r] = <<>> /\ direction[r] = <<>>
    /\ upperBand[r] = <<>> /\ lowerBand[r] = <<>>
    /\ trendUp[r] = <<>> /\ trendDown[r] = <<>> /\ trend[r] = <<>>
\* The series is shorter than the period (the larger of pivotPeriod and
\* atrPeriod for the Pivot variant; the parameters of the functions not
\* called are 0).
TooShort(r) ==
    \/ len(klineData[r]) < period
    \/ len(klineData[r]) < pivotPeriod
    \/ len(klineData[r]) < atrPeriod

\* C14: CalculateSuperTrend, CalculateSuperTrendPivotHl2 and
\* CalculateSuperTrendPivot called on a series shorter than the period(s)
\* return an error, and whenever they return an error the result is nil.
C14_FailFast ==
    /\ (Over(1) /\ TooShort(1)) => pc[1] = "error"
    /\ pc[1] = "error" => NilResult(1)

\* C14 witness: an error is returned for a series that is not empty.
C14_Witness ==
    /\ pc[1] = "error" /\ TooShort(1) /\ NilResult(1)
    /\ len(klineData[1]) >= 1

\* C15: a call of CalculateSuperTrendPivotHl2 with a non-positive period
\* returns an (InvalidParameter) error instead of a result.
C15_NonPositivePeriodRejected ==
    (Over(1) /\ period <= 0) => (pc[1] = "error" /\ NilResult(1))

(***************************************************************************)
(* Properties of CalculateSuperTrendPivotHl2 on particular series          *)
(***************************************************************************)
StrictlyIncreasingCloses(k) ==
    \A j \in DOMAIN k : j >= 1 => k[j - 1].Close < k[j].Close
ConstantSpreadAroundClose(k) ==
    \A j, n \in DOMAIN k :
        /\ k[j].High - k[j].Close = k[j].Close - k[j].Low
        /\ k[j].High - k[j].Low = k[n].High - k[n].Low

\* C16: on a series with strictly increasing closes and a constant high-low
\* spread centred on the close, once Direction is Up at some index it is Up
\* at every later index.
C16_UpStaysUp ==
    (/\ Result(1)
     /\ StrictlyIncreasingCloses(klineData[1])
     /\ ConstantSpreadAroundClose(klineData[1])) =>
        \A j, n \in DOMAIN direction[1] :
            (j < n /\ direction[1][j] = 1) => direction[1][n] = 1

\* C16 witness: a result on the longest rising series, with a spread, whose
\* direction became Up at the first bar past the warm-up and whose lower
\* band rose after it.
C16_Witness ==
    /\ Result(1)
    /\ StrictlyIncreasingCloses(klineData[1])
    /\ ConstantSpreadAroundClose(klineData[1])
    /\ len(klineData[1]) = RisingLen /\ period = 2
    /\ klineData[1][0].High > klineData[1][0].Low
    /\ direction[1][period - 1] = 0
    /\ direction[1][period] = 1 /\ direction[1][RisingLen - 1] = 1
    /\ lowerBand[1][RisingLen - 1] > lowerBand[1][period]

\* The call of run 1 is the scenario: 20 bars, close[j] = 100 + j,
\* high = close + 1, low = close - 1, period 10, multiplier 3.
IsScenario ==
    /\ len(klineData[1]) = 20
    /\ \A j \in DOMAIN klineData[1] :
          /\ klineData[1][j].Close = 100 + j
          /\ klineData[1][j].High = klineData[1][j].Close + 1
          /\ klineData[1][j].Low = klineData[1][j].Close - 1
    /\ period = 10 /\ multiplier = 3

\* C17: on the scenario, Direction[19] is Up and LowerBand[19] is greater
\* than LowerBand[10].
C17_Scenario ==
    (Result(1) /\ IsScenario) =>
        /\ direction[1][19] = 1
        /\ lowerBand[1][19] > lowerBand[1][10]

\* C17 witness: the scenario returned a result; its lower band is 109 at
\* index 10 (inherited from the warm-up bar 9) and 113 at index 19.
C17_Witness ==
    /\ Result(1) /\ IsScenario
    /\ lowerBand[1][10] = F(period, 109)
    /\ lowerBand[1][19] = F(period, 113)

\* Bar j of run 1 gaps down while the direction is Up: Direction[j-1] is Up,
\* LowerBand[j-1] is positive and close[j] is no more than half of it.
GapDown(j) ==
    /\ direction[1][j - 1] = 1
    /\ lowerBand[1][j - 1] > 0
    /\ 2 * Close(1, j) <= lowerBand[1][j - 1]

\* C18 as stated: at a gap-down bar i, Direction[i] is Down and UpperBand[i]
\* is the raw candidate hl2[i] + multiplier*ATR[i].
C18_GapReseedsUpper ==
    Result(1) =>
        \A j \in Scope(1) : GapDown(j) =>
            /\ direction[1][j] = -1
            /\ upperBand[1][j] = RawUpper(1, j)

\* C18 amended: at a gap-down bar i whose previous close was not below
\* LowerBand[i-1], Direction[i] is Down; UpperBand[i] is the raw candidate
\* when that is below UpperBand[i-1] or close[i-1] is above UpperBand[i-1],
\* and is UpperBand[i-1] otherwise: the gap alone does not re-seed it.
C18_GapFlipsUpperRatchets ==
    Result(1) =>
        \A j \in Scope(1) : GapDown(j) =>
            /\ Close(1, j - 1) >= lowerBand[1][j - 1] => direction[1][j] = -1
            /\ (\/ RawUpper(1, j) < upperBand[1][j - 1]
                \/ Close(1, j - 1) > upperBand[1][j - 1])
                  => upperBand[1][j] = RawUpper(1, j)
            /\ ~(\/ RawUpper(1, j) < upperBand[1][j - 1]
                 \/ Close(1, j - 1) > upperBand[1][j - 1])
                  => upperBand[1][j] = upperBand[1][j - 1]

\* C18 witness: a gap-down bar, close[i] exactly half of LowerBand[i-1],
\* flips the direction to Down and inherits an upper band that differs from
\* the raw candidate.
C18_Witness ==
    /\ Result(1)
    /\ \E j \in Scope(1) :
          /\ GapDown(j)
          /\ 2 * Close(1, j) = lowerBand[1][j - 1]
          /\ direction[1][j] = -1
          /\ upperBand[1][j] = upperBand[1][j - 1]
          /\ upperBand[1][j] # RawUpper(1, j)

(***************************************************************************)
(* Properties of FindPivotHighPoint and FindPivotLowPoint                  *)
(***************************************************************************)
\* The window index-period .. index+period lies inside the series.
FullWindow == i[1] - pivotPeriod >= 0 /\ i[1] + pivotPeriod < len(klineData[1])
Window == i[1] - pivotPeriod .. i[1] + pivotPeriod

\* C20: FindPivotHighPoint returns high[i] (and not NaN) exactly when the
\* whole window [i-p, i+p] exists and no high in it is greater than high[i],
\* equal highs included; FindPivotLowPoint likewise with lows and less.
C20_PivotIffWindowExtremum ==
    pc[1] = "done" =>
        LET k == klineData[1] IN
        /\ ~pivotHighPoint[1].nan <=>
              (FullWindow /\ \A j \in Window : k[j].High <= k[i[1]].High)
        /\ ~pivotHighPoint[1].nan =>
              pivotHighPoint[1].v = F(atrPeriod, k[i[1]].High)
        /\ ~pivotLowPoint[1].nan <=>
              (FullWindow /\ \A j \in Window : k[j].Low >= k[i[1]].Low)
        /\ ~pivotLowPoint[1].nan =>
              pivotLowPoint[1].v = F(atrPeriod, k[i[1]].Low)

\* C20 witness: a pivot high is reported for a bar whose high is tied with
\* another bar of its window and not with all of them, and no pivot low.
C20_Witness ==
    /\ pc[1] = "done" /\ pivotPeriod = 1
    /\ ~pivotHighPoint[1].nan /\ pivotLowPoint[1].nan
    /\ klineData[1][i[1] - 1].High = klineData[1][i[1]].High
    /\ klineData[1][i[1] + 1].High < klineData[1][i[1]].High

(***************************************************************************)
(* Properties of the result of CalculateSuperTrend (run 1)                 *)
(***************************************************************************)
\* The bars the second loop of CalculateSuperTrend visits.
AfterSeed(r) == {j \in DOMAIN klineData[r] : j > period /\ period >= 1}

\* C23: in a result of CalculateSuperTrend, at every bar i > period whose
\* previous trend is Up (true), the trend is Down (false) exactly when
\* close[i] is below the published Lower[i]; a close on the band stays Up.
C23_BooleanFlipIffBelowLower ==
    Result(1) =>
        \A j \in AfterSeed(1) : trend[1][j - 1] =>
            (~trend[1][j] <=> Close(1, j) < lowerBand[1][j])

\* C24: in a result of CalculateSuperTrend, at every bar i > period where
\* the trend flips from Up to Down, the published Upper[i] is the raw
\* candidate midpoint[i] + multiplier*ATR[i].
C24_BooleanFlipReseedsUpper ==
    Result(1) =>
        \A j \in AfterSeed(1) : (trend[1][j - 1] /\ ~trend[1][j]) =>
            upperBand[1][j] = RawUpper(1, j)

(***************************************************************************)
(* Properties of CalculateSuperTrendPivot (run 1).  The result publishes   *)
(* Upper = trendDown and Lower = trendUp.                                  *)
(***************************************************************************)
PivotClose(j) == F(atrPeriod, klineData[1][j].Close)
\* The bars after the first one the loop visits.
AfterPivotPeriod ==
    {j \in DOMAIN klineData[1] : j > pivotPeriod /\ pivotPeriod >= 0}

\* C25: the iteration of a bar i > pivotPeriod writes Lower[i] = the raw
\* candidate center - factor*ATR[i] if that is above Lower[i-1] or
\* close[i-1] is below Lower[i-1], and Lower[i-1] otherwise (also when
\* close[i-1] = Lower[i-1]); Upper[i] symmetrically.
C25_PivotBandsRatchet ==
    [][(/\ pc[1] = "pivot_loop" /\ i'[1] = i[1] + 1
        /\ i[1] \in AfterPivotPeriod) =>
          LET j == i[1]
              rawLower == center'[1] - factor * atr[1].Values[j]
              rawUpper == center'[1] + factor * atr[1].Values[j]
          IN  /\ trendUp'[1][j] =
                   IF \/ rawLower > trendUp[1][j - 1]
                      \/ PivotClose(j - 1) < trendUp[1][j - 1]
                   THEN rawLower ELSE trendUp[1][j - 1]
              /\ trendDown'[1][j] =
                   IF \/ rawUpper < trendDown[1][j - 1]
                      \/ PivotClose(j - 1) > trendDown[1][j - 1]
                   THEN rawUpper ELSE trendDown[1][j - 1]]_vars

\* C26: in a result, at every bar i > pivotPeriod: if Trend[i-1] is 1 then
\* Trend[i] is -1 exactly when close[i] < Lower[i], and 1 otherwise; if
\* Trend[i-1] is not 1 then Trend[i] is 1 exactly when close[i] > Upper[i],
\* and -1 otherwise.
C26_PivotTransitionRule ==
    Result(1) =>
        \A j \in AfterPivotPeriod :
            trend[1][j] =
                IF trend[1][j - 1] = 1
                THEN (IF PivotClose(j) < trendUp[1][j] THEN -1 ELSE 1)
                ELSE (IF PivotClose(j) > trendDown[1][j] THEN 1 ELSE -1)

\* C27: in a result, Trend[i] is 1 or -1 at every index
\* i >= max(pivotPeriod, atrPeriod).
C27_PivotTrendDetermined ==
    Result(1) =>
        \A j \in DOMAIN trend[1] :
            (j >= pivotPeriod /\ j >= atrPeriod) => trend[1][j] \in {1, -1}

\* C30: in a result, once Trend is non-zero at an index it is non-zero at
\* every later index, and IsTrendChange is true exactly when IsBullishCross
\* or IsBearishCross is.
C30_TrendNeverBackToZero ==
    Result(1) =>
        /\ \A j, n \in DOMAIN trend[1] :
              (j < n /\ trend[1][j] # 0) => trend[1][n] # 0
        /\ IsTrendChange(trend[1]) <=>
              (IsBullishCross(trend[1]) \/ IsBearishCross(trend[1]))

\* C30 witness: a result whose trend was Up, turned Down at the last bar,
\* and IsTrendChange reports it.
C30_Witness ==
    /\ Result(1) /\ len(trend[1]) = MaxLen
    /\ trend[1][MaxLen - 2] = 1 /\ trend[1][MaxLen - 1] = -1
    /\ IsTrendChange(trend[1]) /\ IsBearishCross(trend[1])

(***************************************************************************)
(* Order of the bands, the close and the published line in a result of     *)
(* CalculateSuperTrendPivotHl2 (run 1)                                     *)
(***************************************************************************)
\* C28 as stated: UpperBand[i] >= LowerBand[i] at every index of a result.
C28_BandsNeverCross ==
    Result(1) =>
        \A j \in DOMAIN klineData[1] : upperBand[1][j] >= lowerBand[1][j]

\* C28 amended: at every index the bands lie inside the channel of the raw
\* candidates, rawLower[i] <= LowerBand[i] and UpperBand[i] <= rawUpper[i],
\* with rawLower[i] <= rawUpper[i]; in the warm-up prefix both bands are
\* equal.
C28_BandsInsideRawChannel ==
    Result(1) =>
        \A j \in DOMAIN klineData[1] :
            /\ RawLower(1, j) <= RawUpper(1, j)
            /\ RawLower(1, j) <= lowerBand[1][j]
            /\ upperBand[1][j] <= RawUpper(1, j)
            /\ j < period => upperBand[1][j] = lowerBand[1][j]

\* C28 witness: a result whose bands cross at a bar, both strictly inside
\* the raw channel of that bar.
C28_Witness ==
    /\ Result(1)
    /\ \E j \in Scope(1) :
          /\ upperBand[1][j] < lowerBand[1][j]
          /\ RawLower(1, j) <= lowerBand[1][j]
          /\ upperBand[1][j] < RawUpper(1, j)

C21_LatestIsLastOfFull ==
    /\ Result(1)
    /\ len(klineData[1]) >= 1
    /\ pc[2] \in {"returned", "returned_zero", "panic"}
    => /\ pc[2] = "returned"
       /\ Returned(2) = values[1][len(values[1]) - 1]


====
